---- MODULE Spec2Model ----
(***************************************************************************)
(* Model of the scraping pipeline of ScrapeDaWeb_Lvl4:                     *)
(*   scrapedaweb4_Mac.py            the scraper module (library functions) *)
(*   streamlit_scrapedaweb4_Mac.py  the first UI   (app = "v4")            *)
(*   streamlit_scrapedaweb7.py      the second UI  (app = "v7")            *)
(* Spec    : the UI scripts driving perform_scrape, several sessions.      *)
(* SpecLib : the scraper module's functions called on bounded inputs.      *)
(***************************************************************************)
EXTENDS Integers, Sequences, FiniteSets, TLC

VARIABLES
    app,              \* which UI script is deployed: "v4" or "v7"
    scraper_imported, \* did `import scraper` succeed
    clock,            \* wall clock, in ticks of 1/TicksPerSecond second
    pc,               \* per session: position inside the script / perform_scrape
    url_input,        \* per session: the URL text box
    tags,             \* per session: the field-name tags
    model_selection,  \* per session: the model select box
    start_scraping,   \* per session: st.session_state.start_scraping (v7)
    scrape_results,   \* per session: st.session_state.scrape_results
    run,              \* per session: the locals of the running perform_scrape
    fetch_cache,      \* per session: URLs held by the lru_cache of fetch_html_async
    fetched,          \* per session: the URLs fetch_html_async was called with so far,
                      \* one per run, oldest first
    files,            \* the output folder: file name -> the run that wrote it last
    st_error,         \* per session: the exception st.error displays, if any
    env,              \* the environment: the open sessions, what their users enter,
                      \* what the web, the model endpoint and the disk answer
    api,              \* per session: the requests sent to the model endpoint by the
                      \* current run, and the arguments of its calculate_price call
    lib               \* SpecLib: the last library call and its result

vars == << app, scraper_imported, clock, pc, url_input, tags, model_selection,
           start_scraping, scrape_results, run, fetch_cache, fetched, files, st_error, api, env, lib >>

uivars == << app, scraper_imported, clock, pc, url_input, tags, model_selection,
             start_scraping, scrape_results, run, fetch_cache, fetched, files, st_error, api, env >>

----------------------------------------------------------------------------
(* Bounds *)

MaxLen == 3          \* longest text (code points) handed to the tokenizer
MaxBudget == 3       \* largest max_tokens tried in SpecLib
MaxFields == 2       \* longest field list
MaxClock == 2        \* last clock tick
TicksPerSecond == 2  \* clock ticks per second of the timestamp format
MaxRuns == 2         \* runs per session
TokenBudget == 2     \* the token budget N of the extraction request, scaled to MaxLen

----------------------------------------------------------------------------
(* Text, UTF-8 and the byte-pair tokenizer (tiktoken)                       *)

\* Code points of the texts: 'a', 'b', U+00E9 (2 bytes), U+20AC (3 bytes).
Alphabet == {97, 98, 233, 8364}

REPLACEMENT == 65533   \* U+FFFD, what bytes.decode(errors="replace") emits

RECURSIVE TextsUpTo(_)
TextsUpTo(n) ==
    IF n = 0 THEN {<<>>}
    ELSE LET shorter == TextsUpTo(n - 1)
         IN shorter \cup {Append(t, c) : t \in {x \in shorter : Len(x) = n - 1}, c \in Alphabet}

Texts == TextsUpTo(MaxLen)

\* str.encode("utf-8") of one code point
utf8_char(cp) ==
    IF cp < 128 THEN <<cp>>
    ELSE IF cp < 2048 THEN <<192 + (cp \div 64), 128 + (cp % 64)>>
    ELSE <<224 + (cp \div 4096), 128 + ((cp \div 64) % 64), 128 + (cp % 64)>>

RECURSIVE utf8_encode(_)
utf8_encode(text) ==
    IF text = <<>> THEN <<>>
    ELSE utf8_char(Head(text)) \o utf8_encode(Tail(text))

IsCont(b) == b >= 128 /\ b <= 191

\* bytes.decode("utf-8", errors="replace"): an ill-formed or truncated
\* sequence becomes one U+FFFD and decoding resumes after it.
RECURSIVE utf8_decode(_)
utf8_decode(bytes) ==
    IF bytes = <<>> THEN <<>>
    ELSE LET b == bytes[1]
             n == Len(bytes)
             rest(k) == SubSeq(bytes, k + 1, n)
         IN IF b < 128 THEN <<b>> \o utf8_decode(rest(1))
            ELSE IF b >= 194 /\ b <= 223 THEN
                IF n >= 2 /\ IsCont(bytes[2])
                THEN <<(b - 192) * 64 + (bytes[2] - 128)>> \o utf8_decode(rest(2))
                ELSE <<REPLACEMENT>> \o utf8_decode(rest(1))
            ELSE IF b >= 224 /\ b <= 239 THEN
                IF n >= 2 /\ IsCont(bytes[2])
                THEN IF n >= 3 /\ IsCont(bytes[3])
                     THEN <<(b - 224) * 4096 + (bytes[2] - 128) * 64 + (bytes[3] - 128)>>
                          \o utf8_decode(rest(3))
                     ELSE <<REPLACEMENT>> \o utf8_decode(rest(2))
                ELSE <<REPLACEMENT>> \o utf8_decode(rest(1))
            ELSE <<REPLACEMENT>> \o utf8_decode(rest(1))

\* The models tiktoken can map to an encoding, and the encoding of each.
\* Any other name makes tiktoken.encoding_for_model raise KeyError.
encoding_for_model(model) ==
    IF model \in {"gpt-4o-mini", "gpt-4o-2024-08-06"} THEN "o200k_base"
    ELSE IF model = "gpt-4" THEN "cl100k_base"
    ELSE "KeyError"

\* The merge table of an encoding, lowest rank first: a token is a byte
\* string, and a pair of adjacent tokens merges when it is in the table.
\* 'ab', 'aba' and U+FFFD are single tokens; U+00E9 and U+20AC stay split
\* into their bytes, like the rarer characters of the real vocabularies.
mergeable_ranks(enc) ==
    IF enc = "o200k_base"
    THEN << <<97, 98>>, <<239, 191>>, <<239, 191, 189>>, <<97, 98, 97>> >>
    ELSE << <<97, 98>>, <<239, 191>>, <<239, 191, 189>> >>

\* rank of the byte string `piece`, 0 when it is no token of the table
Rank(enc, piece) ==
    LET table == mergeable_ranks(enc)
        hits == {i \in 1..Len(table) : table[i] = piece}
    IN IF hits = {} THEN 0 ELSE CHOOSE i \in hits : TRUE

\* byte_pair_merge: repeatedly merge the adjacent pair of lowest rank
\* (the leftmost one among equals) until no adjacent pair is in the table.
RECURSIVE byte_pair_merge(_, _)
byte_pair_merge(enc, parts) ==
    LET cand == {i \in 1..(Len(parts) - 1) : Rank(enc, parts[i] \o parts[i + 1]) > 0}
    IN IF cand = {} THEN parts
       ELSE LET best == CHOOSE i \in cand :
                            \A j \in cand :
                                \/ Rank(enc, parts[i] \o parts[i + 1]) < Rank(enc, parts[j] \o parts[j + 1])
                                \/ /\ Rank(enc, parts[i] \o parts[i + 1]) = Rank(enc, parts[j] \o parts[j + 1])
                                   /\ i <= j
            IN byte_pair_merge(enc,
                   SubSeq(parts, 1, best - 1)
                   \o << parts[best] \o parts[best + 1] >>
                   \o SubSeq(parts, best + 2, Len(parts)))

\* encoder.encode(text): the tokens (byte strings) of the text
encode(enc, text) ==
    LET bytes == utf8_encode(text)
    IN byte_pair_merge(enc, [i \in 1..Len(bytes) |-> <<bytes[i]>>])

RECURSIVE Concat(_)
Concat(tokens) ==
    IF tokens = <<>> THEN <<>> ELSE Head(tokens) \o Concat(Tail(tokens))

\* encoder.decode(tokens): the bytes of the tokens, decoded leniently
decode(enc, tokens) == utf8_decode(Concat(tokens))

\* trim_to_token_limit(text, model, max_tokens)
trim_to_token_limit(text, model, max_tokens) ==
    LET enc == encoding_for_model(model)
        tokens == encode(enc, text)
    IN IF Len(tokens) > max_tokens
       THEN decode(enc, SubSeq(tokens, 1, max_tokens))
       ELSE text

----------------------------------------------------------------------------
(* Pricing and the cost computation                                         *)

\* pricing: price per token, in units of 1e-9 dollar
\* (0.150 / 1_000_000 dollar = 150 units, 10 / 1_000_000 dollar = 10000 units)
pricing ==
    [m \in {"gpt-4o-mini", "gpt-4o-2024-08-06"} |->
        IF m = "gpt-4o-mini" THEN [input |-> 150, output |-> 600]
        ELSE [input |-> 2500, output |-> 10000]]

model_used == "gpt-4o-mini"

\* Model names a caller can pass: the pricing keys, a model tiktoken knows
\* but the pricing table does not, and the UI's fallback option.
Models == {"gpt-4o-mini", "gpt-4o-2024-08-06", "gpt-4", "Default Model"}

Raised(kind) ==
    [outcome |-> kind, input_token_count |-> 0, output_token_count |-> 0, total_cost |-> 0]

\* The same computation with the lookups falling back on model_used.
calculate_price_default(input_text, output_text, model) ==
    LET m == IF model \in DOMAIN pricing THEN model ELSE model_used
        enc == encoding_for_model(m)
        input_token_count == Len(encode(enc, input_text))
        output_token_count == Len(encode(enc, output_text))
    IN [outcome |-> "returned",
        input_token_count |-> input_token_count,
        output_token_count |-> output_token_count,
        total_cost |-> input_token_count * pricing[m].input
                       + output_token_count * pricing[m].output]

\* calculate_price(input_text, output_text, model)
calculate_price(input_text, output_text, model) ==
    LET enc == encoding_for_model(model)
    IN IF enc = "KeyError" THEN Raised("KeyError")          \* encoding_for_model raises
       ELSE LET input_token_count == Len(encode(enc, input_text))
                output_token_count == Len(encode(enc, output_text))
            IN IF model \notin DOMAIN pricing THEN Raised("KeyError")   \* pricing[model] raises
               ELSE [outcome |-> "returned",
                     input_token_count |-> input_token_count,
                     output_token_count |-> output_token_count,
                     total_cost |-> input_token_count * pricing[model].input
                                    + output_token_count * pricing[model].output]

----------------------------------------------------------------------------
(* The schema built from the field list                                     *)

FieldNames == {"name", "price"}

RECURSIVE SeqsUpTo(_, _)
SeqsUpTo(S, n) ==
    IF n = 0 THEN {<<>>}
    ELSE LET shorter == SeqsUpTo(S, n - 1)
         IN shorter \cup {Append(t, c) : t \in {x \in shorter : Len(x) = n - 1}, c \in S}

FieldLists == SeqsUpTo(FieldNames, MaxFields)

\* the keys of {field: ... for field in field_names}: first occurrences, in order
RECURSIVE DictKeys(_)
DictKeys(names) ==
    IF names = <<>> THEN <<>>
    ELSE LET front == DictKeys(SubSeq(names, 1, Len(names) - 1))
             last == names[Len(names)]
         IN IF \E i \in 1..Len(front) : front[i] = last THEN front ELSE Append(front, last)

\* create_dynamic_listing_model(field_names): one required str field per name
create_dynamic_listing_model(field_names) ==
    [outcome |-> "model", name |-> "DynamicListingModel", fields |-> DictKeys(field_names)]

\* create_listings_container_model(listing_model): listings = List[listing_model]
create_listings_container_model(listing_model) ==
    [outcome |-> "model", name |-> "DynamicListingsContainer",
     fields |-> <<"listings">>, listing_fields |-> listing_model.fields]

----------------------------------------------------------------------------
(* The extraction result and its persistence                                *)

\* A Python value: kind is "none", "str", "list", "dict" or "model" (a
\* pydantic object, which has .dict()); keys/items hold a mapping's keys and
\* values or a list's elements.
NoneValue == [kind |-> "none", keys |-> <<>>, items |-> <<>>, s |-> ""]
Str(text) == [kind |-> "str", keys |-> <<>>, items |-> <<>>, s |-> text]
List(elems) == [kind |-> "list", keys |-> <<>>, items |-> elems, s |-> ""]
Dict(ks, vs) == [kind |-> "dict", keys |-> ks, items |-> vs, s |-> ""]
Model(ks, vs) == [kind |-> "model", keys |-> ks, items |-> vs, s |-> ""]

\* .dict() of a pydantic object: the object and the objects nested in its
\* lists become plain mappings (the models here nest two levels deep)
dict_of_listing(v) == IF v.kind = "model" THEN Dict(v.keys, v.items) ELSE v

dict_of_field(v) ==
    IF v.kind = "model" THEN Dict(v.keys, v.items)
    ELSE IF v.kind = "list" THEN List([i \in 1..Len(v.items) |-> dict_of_listing(v.items[i])])
    ELSE v

to_dict(v) == Dict(v.keys, [i \in 1..Len(v.items) |-> dict_of_field(v.items[i])])

\* pd.DataFrame(data) raises for a bare string, for a non-empty mapping of
\* scalars only, and for a mapping whose list values differ in length.
IsScalar(v) == v.kind \in {"none", "str"}

DataFrameRaises(data) ==
    \/ data.kind = "str"
    \/ /\ data.kind = "dict"
       /\ Len(data.items) > 0
       /\ \/ \A i \in 1..Len(data.items) : IsScalar(data.items[i])
          \/ \E i, j \in 1..Len(data.items) :
                /\ data.items[i].kind = "list"
                /\ data.items[j].kind = "list"
                /\ Len(data.items[i].items) # Len(data.items[j].items)

\* lines 118-123: what is handed to pd.DataFrame; kind "raise" stands for
\* the ValueError of line 123
Raise == [kind |-> "raise", keys |-> <<>>, items |-> <<>>, s |-> "ValueError"]

\* the selection with the mapping's values as the rows of the last case
data_for_df_values(formatted_data_dict) ==
    IF formatted_data_dict.kind = "dict" THEN
        IF Len(formatted_data_dict.items) = 1 /\ formatted_data_dict.items[1].kind = "list"
        THEN formatted_data_dict.items[1]
        ELSE List(formatted_data_dict.items)
    ELSE IF formatted_data_dict.kind = "list" THEN formatted_data_dict
    ELSE Raise

data_for_df(formatted_data_dict) ==
    IF formatted_data_dict.kind = "dict" THEN
        IF Len(formatted_data_dict.items) = 1
        THEN formatted_data_dict.items[1]
        ELSE formatted_data_dict
    ELSE IF formatted_data_dict.kind = "list" THEN formatted_data_dict
    ELSE Raise

\* save_formatted_data(formatted_data, timestamp): the JSON file is written
\* first; then the table is built and written, and a failure there is
\* caught (returns None); data that is neither mapping nor list raises.
\* excel_ok: whether df.to_excel can write the file.
save_formatted_data(formatted_data, timestamp, excel_ok) ==
    LET formatted_data_dict ==
            IF formatted_data.kind = "model" THEN to_dict(formatted_data) ELSE formatted_data
        data == data_for_df(formatted_data_dict)
    IN IF data.kind = "raise"
       THEN [outcome |-> "ValueError", json |-> formatted_data_dict, json_written |-> TRUE,
             frame |-> Raise, xlsx_written |-> FALSE, timestamp |-> timestamp]
       ELSE IF DataFrameRaises(data) \/ ~excel_ok
       THEN [outcome |-> "None", json |-> formatted_data_dict, json_written |-> TRUE,
             frame |-> data, xlsx_written |-> FALSE, timestamp |-> timestamp]
       ELSE [outcome |-> "df", json |-> formatted_data_dict, json_written |-> TRUE,
             frame |-> data, xlsx_written |-> TRUE, timestamp |-> timestamp]

\* Results handed to save_formatted_data in SpecLib
Row(n) == Dict(<<"name">>, <<Str(n)>>)
RowModel(n) == Model(<<"name">>, <<Str(n)>>)
RowLists == {<<>>, <<Row("A")>>, <<Row("A"), Row("B")>>}

Datas ==
    {NoneValue, Str("A")}
    \cup {List(r) : r \in RowLists}
    \cup {Dict(<<"listings">>, <<List(r)>>) : r \in RowLists}
    \cup {Model(<<"listings">>, <<List(<<RowModel("A")>>)>>),
          Model(<<"listings">>, <<List(<<RowModel("A"), RowModel("B")>>)>>),
          Dict(<<"name">>, <<Str("A")>>),
          Dict(<<"name">>, <<NoneValue>>),
          Dict(<<"first">>, <<Row("A")>>),
          Dict(<<"name", "price">>, <<Str("A"), Str("B")>>),
          Dict(<<"first", "second">>, <<Row("A"), Row("B")>>)}
    \cup {Dict(<<"names", "prices">>, <<List(r1), List(r2)>>) : r1 \in RowLists, r2 \in RowLists}

----------------------------------------------------------------------------
(* SpecLib: the scraper module's functions called directly                  *)

NoCall == [fn |-> "none"]

TokenModels == {m \in Models : encoding_for_model(m) # "KeyError"}

Call_trim_to_token_limit ==
    /\ lib = NoCall
    /\ UNCHANGED uivars
    /\ \E text \in Texts, model \in TokenModels, max_tokens \in 0..MaxBudget :
        lib' = [fn |-> "trim_to_token_limit", text |-> text, model |-> model,
                max_tokens |-> max_tokens,
                result |-> trim_to_token_limit(text, model, max_tokens)]

Call_calculate_price ==
    /\ lib = NoCall
    /\ UNCHANGED uivars
    /\ \E input_text \in TextsUpTo(2), output_text \in TextsUpTo(1), model \in Models :
        lib' = [fn |-> "calculate_price", input_text |-> input_text,
                output_text |-> output_text, model |-> model,
                result |-> calculate_price(input_text, output_text, model)]

Call_create_dynamic_listing_model ==
    /\ lib = NoCall
    /\ UNCHANGED uivars
    /\ \E field_names \in FieldLists :
        lib' = [fn |-> "create_dynamic_listing_model", field_names |-> field_names,
                result |-> create_listings_container_model(
                               create_dynamic_listing_model(field_names))]

Call_save_formatted_data ==
    /\ lib = NoCall
    /\ UNCHANGED uivars
    /\ \E formatted_data \in Datas, excel_ok \in BOOLEAN :
        lib' = [fn |-> "save_formatted_data", formatted_data |-> formatted_data,
                excel_ok |-> excel_ok,
                result |-> save_formatted_data(formatted_data, 0, excel_ok)]

\* the call returns to its caller
Return ==
    /\ lib # NoCall
    /\ lib' = NoCall
    /\ UNCHANGED uivars

NextLib ==
    \/ Call_trim_to_token_limit
    \/ Call_calculate_price
    \/ Call_create_dynamic_listing_model
    \/ Call_save_formatted_data
    \/ Return

----------------------------------------------------------------------------
(* Serialising the result for the cost computation                          *)

\* the characters of the strings that occur in results
Chars(str) ==
    CASE str = "listings" -> <<108, 105, 115, 116, 105, 110, 103, 115>>
      [] str = "name" -> <<110, 97, 109, 101>>
      [] str = "price" -> <<112, 114, 105, 99, 101>>
      [] str = "DynamicListingModel" ->
            <<68, 121, 110, 97, 109, 105, 99, 76, 105, 115, 116, 105, 110, 103, 77, 111, 100, 101, 108>>
      [] str = "A" -> <<65>>
      [] str = "B" -> <<66>>
      [] OTHER -> <<>>

RECURSIVE Join(_, _)
Join(parts, sep) ==
    IF parts = <<>> THEN <<>>
    ELSE IF Len(parts) = 1 THEN parts[1]
    ELSE parts[1] \o sep \o Join(Tail(parts), sep)

\* json.dumps(value): {"key": value, ...}, [value, ...], "text", null
RECURSIVE json_dumps(_)
json_dumps(v) ==
    CASE v.kind = "str" -> <<34>> \o Chars(v.s) \o <<34>>
      [] v.kind = "list" ->
            <<91>> \o Join([i \in 1..Len(v.items) |-> json_dumps(v.items[i])], <<44, 32>>) \o <<93>>
      [] v.kind = "dict" ->
            <<123>> \o Join([i \in 1..Len(v.items) |->
                               <<34>> \o Chars(v.keys[i]) \o <<34, 58, 32>> \o json_dumps(v.items[i])],
                           <<44, 32>>) \o <<125>>
      [] OTHER -> <<110, 117, 108, 108>>

\* str(value) of a pydantic object: key=repr(value) pairs; a nested object
\* prints as Class(key=repr(value), ...), a string as 'text'
RECURSIVE py_repr(_)
py_repr(v) ==
    CASE v.kind = "str" -> <<39>> \o Chars(v.s) \o <<39>>
      [] v.kind = "list" ->
            <<91>> \o Join([i \in 1..Len(v.items) |-> py_repr(v.items[i])], <<44, 32>>) \o <<93>>
      [] v.kind = "model" ->
            Chars("DynamicListingModel") \o <<40>>
            \o Join([i \in 1..Len(v.items) |-> Chars(v.keys[i]) \o <<61>> \o py_repr(v.items[i])],
                    <<44, 32>>) \o <<41>>
      [] OTHER -> <<78, 111, 110, 101>>

py_str(v) ==
    IF v.kind = "model"
    THEN Join([i \in 1..Len(v.items) |-> Chars(v.keys[i]) \o <<61>> \o py_repr(v.items[i])], <<32>>)
    ELSE py_repr(v)

\* the text whose tokens are billed as output: line 81 of the first UI,
\* line 126 of the second
formatted_data_text(which, formatted_data) ==
    IF which = "v4" THEN json_dumps(to_dict(formatted_data))
    ELSE IF formatted_data.kind = "dict" THEN json_dumps(formatted_data)
    ELSE py_str(formatted_data)

----------------------------------------------------------------------------
(* The pages and the normaliser                                             *)

\* A page is its elements in document order, each a tag and its text.
Pages ==
    { << [tag |-> "header", text |-> <<98>>], [tag |-> "p", text |-> <<97>>] >>,
      << [tag |-> "p", text |-> <<97, 98>>], [tag |-> "p", text |-> <<233, 8364>>],
         [tag |-> "footer", text |-> <<98>>] >> }

NoPage == <<>>

\* clean_html: the header and footer elements are removed
RECURSIVE clean_html(_)
clean_html(html_content) ==
    IF html_content = <<>> THEN <<>>
    ELSE IF Head(html_content).tag \in {"header", "footer"} THEN clean_html(Tail(html_content))
    ELSE <<Head(html_content)>> \o clean_html(Tail(html_content))

\* html_to_markdown_with_readability: the text of the remaining elements
RECURSIVE handle(_)
handle(html) ==
    IF html = <<>> THEN <<>> ELSE Head(html).text \o handle(Tail(html))

html_to_markdown_with_readability(html_content) == handle(clean_html(html_content))

----------------------------------------------------------------------------
(* The UI scripts and perform_scrape                                        *)

Sessions == {1, 2}

\* One session whose user enters anything, every answer possible
OneUser ==
    [sessions |-> {1},
     urls |-> {"", "https://example.com"},
     tags |-> {<<>>, <<"name">>},
     models |-> Models,
     pages |-> Pages,
     replies |-> {"error", "refusal", "empty", "listing"},
     excel_ok |-> BOOLEAN]

\* Two sessions whose users scrape the same page for the same field
TwoUsers ==
    [sessions |-> {1, 2},
     urls |-> {"https://example.com"},
     tags |-> {<<"name">>},
     models |-> {model_used},
     pages |-> {<< [tag |-> "p", text |-> <<97>>] >>},
     replies |-> {"error", "listing"},
     excel_ok |-> {TRUE}]

\* the options of the model select box
model_options == IF scraper_imported THEN DOMAIN pricing ELSE {"Default Model"}

\* datetime.now().strftime('%Y%m%d_%H%M%S'): the clock cut to whole seconds
strftime(now) == now \div TicksPerSecond

Timestamps == 0..strftime(MaxClock)
FileNames == {"rawData_md", "sorted_data_json", "sorted_data_xlsx"} \X Timestamps

NoRun == [session |-> 0, id |-> 0]
RunOf(s) == [session |-> s, id |-> run[s].id]

NoModel == [outcome |-> "unset", name |-> "", fields |-> <<>>, listing_fields |-> <<>>]
NoArgs == [input_text |-> <<>>, output_text |-> <<>>, model |-> ""]
NoCalls == [requests |-> <<>>, priced |-> NoArgs]
NoPrice == Raised("unset")
NoResults ==
    [df |-> "unset", formatted_data |-> NoneValue, markdown |-> <<>>, input_tokens |-> 0,
     output_tokens |-> 0, total_cost |-> 0, timestamp |-> 0, id |-> 0]
NoError == [kind |-> "", id |-> 0]

\* the locals of perform_scrape before its first line; `bound` names the
\* locals assigned so far
Locals(id) ==
    [id |-> id, bound |-> {}, timestamp |-> 0, raw_html |-> NoPage, markdown |-> <<>>,
     DynamicListingsContainer |-> NoModel, formatted_data |-> NoneValue, df |-> "unset"]

Bind(s, name, value) ==
    [run[s] EXCEPT !.bound = @ \cup {name}, ![name] = value]

InitUI ==
    /\ app \in {"v4", "v7"}
    /\ scraper_imported \in BOOLEAN
    /\ clock = 0
    /\ pc = [s \in Sessions |-> "idle"]
    /\ url_input = [s \in Sessions |-> ""]
    /\ tags = [s \in Sessions |-> <<>>]
    /\ model_selection = [s \in Sessions |-> IF scraper_imported THEN model_used ELSE "Default Model"]
    /\ start_scraping = [s \in Sessions |-> FALSE]
    /\ scrape_results = [s \in Sessions |-> NoResults]
    /\ run = [s \in Sessions |-> Locals(0)]
    /\ fetch_cache = [s \in Sessions |-> {}]
    /\ fetched = [s \in Sessions |-> <<>>]
    /\ files = [f \in FileNames |-> NoRun]
    /\ st_error = [s \in Sessions |-> NoError]
    /\ api = [s \in Sessions |-> NoCalls]
    /\ lib = NoCall

Init == InitUI /\ env = OneUser

InitConcurrent == InitUI /\ env = TwoUsers /\ scraper_imported

\* the except branch around perform_scrape without the reset of the flag
OnException_keeps_flag(s, kind) ==
    /\ st_error' = [st_error EXCEPT ![s] = [kind |-> kind, id |-> run[s].id]]
    /\ start_scraping' = start_scraping
    /\ pc' = [pc EXCEPT ![s] = "idle"]
    /\ run' = [run EXCEPT ![s] = Locals(run[s].id)]

\* the except branch around perform_scrape: the error is displayed and (in
\* the second UI, the only one that sets it) start_scraping is reset
OnException(s, kind) ==
    /\ st_error' = [st_error EXCEPT ![s] = [kind |-> kind, id |-> run[s].id]]
    /\ start_scraping' = [start_scraping EXCEPT ![s] = FALSE]
    /\ pc' = [pc EXCEPT ![s] = "idle"]
    /\ run' = [run EXCEPT ![s] = Locals(run[s].id)]

\* the function defined once and kept: the cache outlives the rerun
define_fetch_html_async_once(cache) == cache

\* @lru_cache(maxsize=32) async def fetch_html_async(url): the definition is
\* a statement of the script, executed by every rerun before perform_scrape
\* is called; it binds a new function whose cache is empty.
define_fetch_html_async(cache) == {}

\* One rerun of the script up to the call of perform_scrape: the widgets
\* take their values, the button handler runs when the button was clicked,
\* fetch_html_async is defined anew (an empty cache), and perform_scrape is
\* entered (its first line takes the timestamp) when the handler of the
\* first UI passed or the start_scraping flag of the second UI is set.
Script(s) ==
    /\ pc[s] = "idle"
    /\ \E clicked \in BOOLEAN, url \in env.urls, t \in env.tags, m \in model_options \cap env.models :
        LET valid == url # "" /\ t # <<>>
            flag == IF app = "v7" /\ clicked /\ valid /\ scraper_imported
                    THEN TRUE ELSE start_scraping[s]
            enters == IF app = "v7" THEN flag ELSE clicked /\ valid
        IN /\ enters => run[s].id < MaxRuns
           /\ url_input' = [url_input EXCEPT ![s] = url]
           /\ tags' = [tags EXCEPT ![s] = t]
           /\ model_selection' = [model_selection EXCEPT ![s] = m]
           /\ start_scraping' = [start_scraping EXCEPT ![s] = flag]
           /\ fetch_cache' = [fetch_cache EXCEPT ![s] = define_fetch_html_async(fetch_cache[s])]
           /\ st_error' = [st_error EXCEPT ![s] =
                              IF clicked /\ ~valid THEN [kind |-> "input", id |-> 0]
                              ELSE IF clicked /\ app = "v7" /\ ~scraper_imported
                              THEN [kind |-> "unavailable", id |-> 0]
                              ELSE NoError]
           /\ api' = [api EXCEPT ![s] = IF enters THEN NoCalls ELSE @]
           /\ pc' = [pc EXCEPT ![s] = IF enters THEN "fetch" ELSE "idle"]
           /\ run' = [run EXCEPT ![s] =
                         IF enters
                         THEN [Locals(run[s].id + 1) EXCEPT !.bound = {"timestamp"},
                                                            !.timestamp = strftime(clock)]
                         ELSE run[s]]
    /\ UNCHANGED << env, app, scraper_imported, clock, scrape_results, fetched, files, lib >>

\* raw_html = asyncio.run(fetch_html_async(url_input)): a URL already in
\* the cache yields the coroutine of the earlier call, which cannot be
\* awaited again; otherwise the request is made and may fail; the first UI
\* then raises ImportError when the scraper module is missing.
Fetch(s) ==
    /\ pc[s] = "fetch"
    /\ fetched' = [fetched EXCEPT ![s] = Append(@, url_input[s])]
    /\ IF url_input[s] \in fetch_cache[s]
       THEN /\ OnException(s, "RuntimeError")
            /\ UNCHANGED fetch_cache
       ELSE /\ fetch_cache' = [fetch_cache EXCEPT ![s] = @ \cup {url_input[s]}]
            /\ \E response \in env.pages \cup {NoPage} :
                  IF response = NoPage THEN OnException(s, "ClientError")
                  ELSE IF ~scraper_imported THEN OnException(s, "ImportError")
                  ELSE /\ run' = [run EXCEPT ![s] = Bind(s, "raw_html", response)]
                       /\ pc' = [pc EXCEPT ![s] = "normalize"]
                       /\ UNCHANGED << start_scraping, st_error >>
    /\ UNCHANGED << env, app, scraper_imported, clock, url_input, tags, model_selection,
                    scrape_results, files, api, lib >>

\* markdown = html_to_markdown_with_readability(raw_html)
Normalize(s) ==
    /\ pc[s] = "normalize"
    /\ run' = [run EXCEPT ![s] =
                  Bind(s, "markdown", html_to_markdown_with_readability(run[s].raw_html))]
    /\ pc' = [pc EXCEPT ![s] = "save_raw"]
    /\ UNCHANGED << env, app, scraper_imported, clock, url_input, tags, model_selection,
                    start_scraping, scrape_results, fetch_cache, fetched, files, st_error, api, lib >>

\* raw_data_path = save_raw_data(markdown, timestamp): rawData_<ts>.md
SaveRawData(s) ==
    /\ pc[s] = "save_raw"
    /\ files' = [files EXCEPT ![<<"rawData_md", run[s].timestamp>>] = RunOf(s)]
    /\ run' = [run EXCEPT ![s].bound = @ \cup {"raw_data_path"}]
    /\ pc' = [pc EXCEPT ![s] = "schema"]
    /\ UNCHANGED << env, app, scraper_imported, clock, url_input, tags, model_selection,
                    start_scraping, scrape_results, fetch_cache, fetched, st_error, api, lib >>

\* DynamicListingModel / DynamicListingsContainer from the tags
BuildSchema(s) ==
    /\ pc[s] = "schema"
    /\ run' = [run EXCEPT ![s] =
                  Bind(s, "DynamicListingsContainer",
                       create_listings_container_model(create_dynamic_listing_model(tags[s])))]
    /\ pc' = [pc EXCEPT ![s] = "extract"]
    /\ UNCHANGED << env, app, scraper_imported, clock, url_input, tags, model_selection,
                    start_scraping, scrape_results, fetch_cache, fetched, files, st_error, api, lib >>

\* what the endpoint can answer: a failure of the call, a refusal (parsed
\* is None), or an object of the schema with no or one listing
Reply(kind, container) ==
    CASE kind = "error" -> Str("error")
      [] kind = "refusal" -> NoneValue
      [] kind = "empty" -> Model(<<"listings">>, <<List(<<>>)>>)
      [] kind = "listing" ->
            Model(<<"listings">>,
                  <<List(<< Model(container.listing_fields,
                                  [i \in 1..Len(container.listing_fields) |-> Str("A")]) >>)>>)

Replies(container) == {Reply(kind, container) : kind \in env.replies}

\* format_data(data, DynamicListingsContainer): the one request, to
\* model_used, carrying the data as the page content
format_data(data, DynamicListingsContainer) ==
    [model |-> model_used, data |-> data, response_format |-> DynamicListingsContainer]

\* formatted_data = format_data(markdown, DynamicListingsContainer)
FormatData(s) ==
    /\ pc[s] = "extract"
    /\ api' = [api EXCEPT ![s].requests =
                  Append(@, format_data(run[s].markdown, run[s].DynamicListingsContainer))]
    /\ \E reply \in Replies(run[s].DynamicListingsContainer) :
          IF reply = Str("error") THEN OnException(s, "OpenAIError")
          ELSE /\ run' = [run EXCEPT ![s] = Bind(s, "formatted_data", reply)]
               /\ pc' = [pc EXCEPT ![s] = "save_formatted"]
               /\ UNCHANGED << start_scraping, st_error >>
    /\ UNCHANGED << env, app, scraper_imported, clock, url_input, tags, model_selection,
                    scrape_results, fetch_cache, fetched, files, lib >>

\* the step left out: the result is priced without having been saved
SaveFormattedData_skipped(s) ==
    /\ pc[s] = "save_formatted"
    /\ pc' = [pc EXCEPT ![s] = "price"]
    /\ UNCHANGED << env, app, scraper_imported, clock, url_input, tags, model_selection,
                    start_scraping, scrape_results, run, fetch_cache, fetched, files, st_error,
                    api, lib >>

\* df = save_formatted_data(formatted_data, timestamp)
SaveFormattedData(s) ==
    /\ pc[s] = "save_formatted"
    /\ \E excel_ok \in env.excel_ok :
        LET saved == save_formatted_data(run[s].formatted_data, run[s].timestamp, excel_ok)
        IN /\ files' = [f \in FileNames |->
                           IF f = <<"sorted_data_json", run[s].timestamp>> THEN RunOf(s)
                           ELSE IF f = <<"sorted_data_xlsx", run[s].timestamp>> /\ saved.xlsx_written
                           THEN RunOf(s)
                           ELSE files[f]]
           /\ IF saved.outcome = "ValueError" THEN OnException(s, "ValueError")
              ELSE /\ run' = [run EXCEPT ![s] = Bind(s, "df", saved.outcome)]
                   /\ pc' = [pc EXCEPT ![s] = "price"]
                   /\ UNCHANGED << start_scraping, st_error >>
    /\ UNCHANGED << env, app, scraper_imported, clock, url_input, tags, model_selection,
                    scrape_results, fetch_cache, fetched, api, lib >>

\* input_tokens, output_tokens, total_cost = calculate_price(markdown,
\* formatted_data_text, model=model_selection), and the return of the results
CalculatePrice(s) ==
    /\ pc[s] = "price"
    /\ LET text == formatted_data_text(app, run[s].formatted_data)
           price == calculate_price(run[s].markdown, text, model_selection[s])
       IN /\ api' = [api EXCEPT ![s].priced =
                        [input_text |-> run[s].markdown, output_text |-> text,
                         model |-> model_selection[s]]]
          /\ IF price.outcome # "returned"
             THEN /\ OnException(s, price.outcome)
                  /\ UNCHANGED scrape_results
             ELSE /\ scrape_results' = [scrape_results EXCEPT ![s] =
                         [df |-> run[s].df, formatted_data |-> run[s].formatted_data,
                          markdown |-> run[s].markdown,
                          input_tokens |-> price.input_token_count,
                          output_tokens |-> price.output_token_count,
                          total_cost |-> price.total_cost,
                          timestamp |-> run[s].timestamp, id |-> run[s].id]]
                  /\ start_scraping' = [start_scraping EXCEPT ![s] = FALSE]
                  /\ pc' = [pc EXCEPT ![s] = "idle"]
                  /\ run' = [run EXCEPT ![s] = Locals(run[s].id)]
                  /\ UNCHANGED st_error
    /\ UNCHANGED << env, app, scraper_imported, clock, url_input, tags, model_selection,
                    fetch_cache, fetched, files, lib >>

\* time passes
Tick ==
    /\ clock < MaxClock
    /\ clock' = clock + 1
    /\ UNCHANGED << env, app, scraper_imported, pc, url_input, tags, model_selection,
                    start_scraping, scrape_results, run, fetch_cache, fetched, files, st_error,
                    api, lib >>

Next ==
    \/ Tick
    \/ \E s \in env.sessions : Script(s)
    \/ \E s \in env.sessions : Fetch(s)
    \/ \E s \in env.sessions : Normalize(s)
    \/ \E s \in env.sessions : SaveRawData(s)
    \/ \E s \in env.sessions : BuildSchema(s)
    \/ \E s \in env.sessions : FormatData(s)
    \/ \E s \in env.sessions : SaveFormattedData(s)
    \/ \E s \in env.sessions : CalculatePrice(s)

Spec == Init /\ [][Next]_vars

SpecConcurrent == InitConcurrent /\ [][Next]_vars

SpecLib == Init /\ [][NextLib]_vars

----------------------------------------------------------------------------
(* Claims                                                                   *)

TokenCount(model, text) == Len(encode(encoding_for_model(model), text))

\* C1: in every run, the page text carried in the request sent to the
\* language model has at most TokenBudget tokens.
C1_RequestWithinBudget ==
    \A s \in Sessions : \A i \in 1..Len(api[s].requests) :
        TokenCount(api[s].requests[i].model, api[s].requests[i].data) <= TokenBudget

\* C2: trim_to_token_limit returns a text whose token sequence is the first
\* min(len, N) tokens of the input, in order; so it never has more tokens
\* than the input or than N, and trimming its result again changes nothing.
C2_TrimKeepsTokenPrefix ==
    lib.fn = "trim_to_token_limit" =>
        LET enc == encoding_for_model(lib.model)
            tokens == encode(enc, lib.text)
            kept == encode(enc, lib.result)
            n == IF Len(tokens) < lib.max_tokens THEN Len(tokens) ELSE lib.max_tokens
        IN /\ kept = SubSeq(tokens, 1, n)
           /\ Len(kept) <= Len(tokens)
           /\ Len(kept) <= lib.max_tokens
           /\ trim_to_token_limit(lib.result, lib.model, lib.max_tokens) = lib.result

\* C3: building the schema from an empty field list fails with
\* ConfigurationError instead of producing a schema.
C3_EmptyFieldListRejected ==
    (lib.fn = "create_dynamic_listing_model" /\ lib.field_names = <<>>) =>
        lib.result.outcome = "ConfigurationError"

C5_PricedAsRequested ==
    \A s \in Sessions :
        api[s].priced # NoArgs =>
            \A i \in 1..Len(api[s].requests) : api[s].requests[i].model = api[s].priced.model

C7_TabularFailureNotFatal ==
    \A s \in Sessions :
        /\ st_error[s].kind # "ValueError"
        /\ (pc[s] = "price" /\ run[s].df = "None") =>
               /\ files[<<"rawData_md", run[s].timestamp>>] # NoRun
               /\ files[<<"sorted_data_json", run[s].timestamp>>] # NoRun

\* C8: no run overwrites a file written by another run (any two runs have
\* distinct run identifiers).
C8_NoRunOverwritesAnother ==
    [][\A f \in FileNames : files[f] # NoRun => files'[f] = files[f]]_vars

Before(s, first, second) == second \in run[s].bound => first \in run[s].bound

\* C9 as stated: no artifact is written before the schema is built and the
\* extraction has returned, and the cost accounting runs before the
\* persistence of the result.
C9_StageOrderAsStated ==
    \A s \in Sessions :
        /\ Before(s, "DynamicListingsContainer", "raw_data_path")
        /\ Before(s, "formatted_data", "raw_data_path")
        /\ "df" \in run[s].bound => api[s].priced # NoArgs

\* C9 as amended: the stages of a run happen in the order fetch, normalize,
\* write the markdown file, schema build, extract, write the JSON and
\* tabular files, account: the JSON and tabular files are written only
\* after the extraction has returned, and calculate_price is called only
\* after save_formatted_data has returned.
C9_StageOrderOfCode ==
    [][\A s \in Sessions :
          /\ Before(s, "timestamp", "raw_html")
          /\ Before(s, "raw_html", "markdown")
          /\ Before(s, "markdown", "raw_data_path")
          /\ Before(s, "raw_data_path", "DynamicListingsContainer")
          /\ Before(s, "DynamicListingsContainer", "formatted_data")
          /\ Before(s, "formatted_data", "df")
          /\ Len(api[s].requests) > 0 => "DynamicListingsContainer" \in run[s].bound \/ pc[s] = "idle"
          /\ (\E kind \in {"sorted_data_json", "sorted_data_xlsx"} :
                 files'[<<kind, run[s].timestamp>>] = RunOf(s)
                 /\ files[<<kind, run[s].timestamp>>] # RunOf(s))
             => "formatted_data" \in run[s].bound
          /\ (api'[s].priced # api[s].priced /\ api'[s].priced # NoArgs)
             => "df" \in run[s].bound
      ]_vars

C9_Witness ==
    \E s \in Sessions :
        /\ api[s].priced # NoArgs
        /\ scrape_results[s].id = run[s].id
        /\ files[<<"rawData_md", scrape_results[s].timestamp>>] # NoRun
        /\ files[<<"sorted_data_json", scrape_results[s].timestamp>>] # NoRun

AlreadyFetched(s, calls) == \E i \in 1..Len(calls) : calls[i] = url_input[s]

\* C11: a run for a URL that an earlier run of the same process already
\* fetched fetches like a first run: the step out of the fetch either binds
\* the page the web answered and goes on to normalization, or ends the run
\* with the failure of the request (or, in the first UI without the scraper
\* module, ImportError); the cache never makes it fail (no RuntimeError of
\* a coroutine awaited twice).
C11_LaterRunFetchesLikeFirst ==
    [][\A s \in Sessions :
          (pc[s] = "fetch" /\ pc'[s] # "fetch" /\ AlreadyFetched(s, fetched[s])) =>
              /\ url_input[s] \notin fetch_cache[s]
              /\ \/ /\ pc'[s] = "normalize"
                    /\ scraper_imported
                    /\ run'[s].raw_html \in env.pages
                    /\ "raw_html" \in run'[s].bound
                    /\ st_error'[s] = st_error[s]
                 \/ /\ pc'[s] = "idle"
                    /\ st_error'[s].id = run[s].id
                    /\ \/ st_error'[s].kind = "ClientError"
                       \/ st_error'[s].kind = "ImportError" /\ ~scraper_imported /\ app = "v4"
      ]_vars

\* after a run that went through, a later run of the session has fetched
\* the same URL again and is about to normalize the page
C11_Witness ==
    \E s \in Sessions :
        /\ run[s].id >= 2
        /\ scrape_results[s].id >= 1
        /\ scrape_results[s].id < run[s].id
        /\ pc[s] = "normalize"
        /\ run[s].raw_html \in env.pages
        /\ Len(fetched[s]) >= 2
        /\ AlreadyFetched(s, SubSeq(fetched[s], 1, Len(fetched[s]) - 1))

====
